---------------------------- MODULE Spec2Model ----------------------------
(***************************************************************************)
(* A model of the contact-form automation engine:                          *)
(*   form_automater.py  load_input_mappings, save_input_mapping,           *)
(*                      extract_form_data, generate_form_input,            *)
(*                      handle_recaptcha, fill_form                        *)
(*   app.py             submit_forms (the batch coordinator)               *)
(*                                                                         *)
(* Python values are records [k, s] whose fields are both strings, so that *)
(* a str, a bool and None can be compared with each other as Python does.  *)
(* A Python dict is a sequence of <<key, value>> pairs with distinct keys, *)
(* in insertion order.                                                     *)
(***************************************************************************)
EXTENDS Integers, Sequences, FiniteSets, TLC

(***************************************************************************)
(* Bounds of the model.                                                    *)
(***************************************************************************)
\* the largest number of elements of a form
MaxElems == 2
\* the largest number of members between the braces of a reply
MaxMembers == 1
\* the largest number of tasks of a batch
MaxTasks == 2
\* the largest number of batches submitted one after another
MaxBatches == 2

(***************************************************************************)
(* Python values.                                                          *)
(***************************************************************************)
PyNone == [k |-> "none", s |-> ""]
PyStr(x) == [k |-> "str", s |-> x]
PyTrue == [k |-> "bool", s |-> "True"]
PyFalse == [k |-> "bool", s |-> "False"]

\* bool(v)
Truthy(v) ==
    CASE v.k = "none" -> FALSE
      [] v.k = "bool" -> v.s = "True"
      [] OTHER -> v.s # ""

\* isinstance(v, bool)
IsBool(v) == v.k = "bool"

(***************************************************************************)
(* Python dicts: sequences of <<key, value>> with distinct keys.           *)
(***************************************************************************)
EmptyDict == << >>

DictKeys(d) == { d[i][1] : i \in DOMAIN d }

DictHas(d, key) == key \in DictKeys(d)

DictGet(d, key) == d[CHOOSE i \in DOMAIN d : d[i][1] = key][2]

\* d[key] = val: an existing key keeps its place
DictSet(d, key, val) ==
    IF DictHas(d, key)
    THEN [i \in DOMAIN d |-> IF d[i][1] = key THEN <<key, val>> ELSE d[i]]
    ELSE Append(d, <<key, val>>)

\* del d[key]
DictDel(d, key) == SelectSeq(d, LAMBDA p : p[1] # key)

\* {k: v for k, v in d.items() if k != key}
DictWithout(d, key) == SelectSeq(d, LAMBDA p : p[1] # key)

RECURSIVE DictUpdate(_, _)
\* d.update(e)
DictUpdate(d, e) ==
    IF e = << >> THEN d
    ELSE DictUpdate(DictSet(d, e[1][1], e[1][2]), Tail(e))

(***************************************************************************)
(* Field names.  The code tests a name with substring checks; the model    *)
(* tabulates each check over the names it uses.                            *)
(***************************************************************************)
\* input_field.get('name') of an element without a name attribute
NoName == ""

\* 'captcha' in name.lower() or 'g-recaptcha-response' in name.lower()
CaptchaNames == {"captcha_code", "g-recaptcha-response"}

\* 'agree' in name.lower() or 'consent' in name.lower() or '同意' in name
AgreementNames == {"agree_terms"}

\* FIELD_KEYWORDS["inquiry_content"]: the names of an inquiry-content field
InquiryContentKeywords == {"message", "inquiry_content"}

(***************************************************************************)
(* The page: the elements of the form, in document order.                  *)
(***************************************************************************)
Element(tag, type, name, req, val) ==
    [tag |-> tag, type |-> type, name |-> name, ariaRequired |-> req,
     value |-> val, options |-> << >>, maxlength |-> "", placeholder |-> ""]

PageElements ==
    << Element("input", "text", "full_name", "true", ""),
       Element("textarea", "", "message", "true", ""),
       Element("textarea", "", "inquiry_content", "", ""),
       Element("textarea", "", "captcha_code", "", ""),
       Element("textarea", "", "g-recaptcha-response", "", ""),
       Element("input", "checkbox", "agree_terms", "true", "1"),
       Element("input", "checkbox", "newsletter", "", "yes"),
       [Element("select", "", "inquiry_type", "", "")
            EXCEPT !.options = <<"yes", "no">>] >>

RECURSIVE SortedSeq(_)
\* the members of a set of numbers, ascending
SortedSeq(S) ==
    IF S = {} THEN << >>
    ELSE LET m == CHOOSE x \in S : \A y \in S : x <= y
         IN <<m>> \o SortedSeq(S \ {m})

\* the forms of at most MaxElems elements, in document order
Forms ==
    { [i \in DOMAIN SortedSeq(S) |-> PageElements[SortedSeq(S)[i]]] :
        S \in { T \in SUBSET DOMAIN PageElements : Cardinality(T) <= MaxElems } }

(***************************************************************************)
(* extract_form_data: the catalog of a form, a dict from field name to     *)
(* descriptor.  A key the code leaves out of a descriptor is "" (or << >>  *)
(* for options), which is what the readers' .get(key) defaults give.       *)
(***************************************************************************)
Descriptor(type, required, options, value, purpose, maxlen, placeholder) ==
    [type |-> type, required |-> required, options |-> options,
     value |-> value, purpose |-> purpose, max_length |-> maxlen,
     placeholder |-> placeholder]

\* soup.find_all('input', {'type': ['text', 'email', 'tel']})
IsTextInput(e) == e.tag = "input" /\ e.type \in {"text", "email", "tel"}

IsSelect(e) == e.tag = "select"

IsRadio(e) == e.tag = "input" /\ e.type = "radio"

IsCheckbox(e) == e.tag = "input" /\ e.type = "checkbox"

IsTextarea(e) == e.tag = "textarea"

\* element.get('aria-required') == "true"
AriaRequired(e) == e.ariaRequired = "true"

RECURSIVE ExtractTextInputs(_, _)
ExtractTextInputs(elems, form_data) ==
    IF elems = << >> THEN form_data
    ELSE LET e == Head(elems)
             next == IF IsTextInput(e) /\ e.name # NoName
                     THEN DictSet(form_data, e.name,
                            Descriptor(e.type, AriaRequired(e), << >>, "", "",
                                       e.maxlength, e.placeholder))
                     ELSE form_data
         IN ExtractTextInputs(Tail(elems), next)

RECURSIVE ExtractSelects(_, _)
ExtractSelects(elems, form_data) ==
    IF elems = << >> THEN form_data
    ELSE LET e == Head(elems)
             next == IF IsSelect(e) /\ e.name # NoName
                     THEN DictSet(form_data, e.name,
                            Descriptor("select", AriaRequired(e),
                                       SelectSeq(e.options, LAMBDA o : o # ""),
                                       "", "", "", ""))
                     ELSE form_data
         IN ExtractSelects(Tail(elems), next)

RECURSIVE ExtractRadioGroups(_, _)
ExtractRadioGroups(elems, radio_groups) ==
    IF elems = << >> THEN radio_groups
    ELSE LET e == Head(elems)
             group == IF DictHas(radio_groups, e.name)
                      THEN DictGet(radio_groups, e.name)
                      ELSE Descriptor("radio", AriaRequired(e), << >>, "", "", "", "")
             next == IF IsRadio(e) /\ e.name # NoName
                     THEN DictSet(radio_groups, e.name,
                            [group EXCEPT !.options = Append(@, e.value)])
                     ELSE radio_groups
         IN ExtractRadioGroups(Tail(elems), next)

\* the mutant of the agreement test: no checkbox is tagged as an agreement
IsAgreementNameNever(name) == FALSE

\* name and ('agree' in name.lower() or 'consent' in name.lower() or '同意' in name)
IsAgreementName(name) == name # NoName /\ name \in AgreementNames

RECURSIVE ExtractCheckboxes(_, _)
\* the else branch stores the descriptor under the name whatever it is
ExtractCheckboxes(elems, form_data) ==
    IF elems = << >> THEN form_data
    ELSE LET e == Head(elems)
             next == IF ~IsCheckbox(e) THEN form_data
                     ELSE IF IsAgreementName(e.name)
                     THEN DictSet(form_data, e.name,
                            Descriptor("checkbox", AriaRequired(e), << >>,
                                       e.value, "agreement", "", ""))
                     ELSE DictSet(form_data, e.name,
                            Descriptor("checkbox", AriaRequired(e), << >>,
                                       e.value, "", "", ""))
         IN ExtractCheckboxes(Tail(elems), next)

\* name and ('captcha' in name.lower() or 'g-recaptcha-response' in name.lower())
IsCaptchaName(name) == name # NoName /\ name \in CaptchaNames

RECURSIVE ExtractTextareas(_, _)
ExtractTextareas(elems, form_data) ==
    IF elems = << >> THEN form_data
    ELSE LET e == Head(elems)
             next == IF ~IsTextarea(e) THEN form_data
                     ELSE IF IsCaptchaName(e.name)
                     THEN DictSet(form_data, e.name,
                            Descriptor("captcha", TRUE, << >>, "", "", "", ""))
                     ELSE IF e.name # NoName
                     THEN DictSet(form_data, e.name,
                            Descriptor("textarea", AriaRequired(e), << >>, "", "", "", ""))
                     ELSE form_data
         IN ExtractTextareas(Tail(elems), next)

\* the catalog of a located form: the five passes, in the code's order
ExtractFormData(elems) ==
    LET inputs == ExtractTextInputs(elems, EmptyDict)
        selects == ExtractSelects(elems, inputs)
        radios == DictUpdate(selects, ExtractRadioGroups(elems, EmptyDict))
        checkboxes == ExtractCheckboxes(elems, radios)
    IN ExtractTextareas(elems, checkboxes)

\* lines 422-424: WebDriverWait(driver, 10).until(presence_of_element_located)
\* returns the form, or raises TimeoutException once the wait bound has passed
\* (until() swallows the NoSuchElementException of each poll)
WaitForForm(present) == IF present THEN "located" ELSE "TimeoutException"

\* lines 521-531: the handlers of extract_form_data's try; both return the
\* catalog as it is, empty, and the first one writes full_page.html
ExtractFormExcept(exception) ==
    [form_data |-> EmptyDict, saved |-> exception = "NoSuchElementException"]

(***************************************************************************)
(* The reply of the generative collaborator.  Its text is a sequence of    *)
(* tokens: free text, an opening brace, a closing brace, or one            *)
(* "key": value member of a JSON object.                                   *)
(***************************************************************************)
Token(tok, key, val) == [tok |-> tok, key |-> key, val |-> val]

TxtTok == Token("txt", "", PyNone)
LbTok == Token("lb", "", PyNone)
RbTok == Token("rb", "", PyNone)
PairTok(key, val) == Token("pair", key, val)

\* the members a reply may hold
AnswerPairs ==
    { PairTok("full_name", PyStr("Taro")),
      PairTok("message", PyStr("Hello")),
      PairTok("captcha_code", PyStr("tok")),
      PairTok("agree_terms", PyFalse) }

\* what may stand where an object's members are: members, or other text
Bodies == UNION { [1..n -> AnswerPairs \cup {TxtTok}] : n \in 0..MaxMembers }

\* the braces around a body: none, one of them, both, or both reversed
Braced(body) ==
    { body, <<LbTok>> \o body, body \o <<RbTok>>,
      <<LbTok>> \o body \o <<RbTok>>, <<RbTok>> \o body \o <<LbTok>> }

\* the answers: a body in its braces, after some text or none
Answers ==
    UNION { UNION { {a, <<TxtTok>> \o a} : a \in Braced(body) } : body \in Bodies }

\* client.chat.completions.create either raises or returns the answer
Replies ==
    { [raises |-> TRUE, answer |-> << >>] }
    \cup { [raises |-> FALSE, answer |-> a] : a \in Answers }

\* an optional value: None, or a value
NoneOf == [none |-> TRUE, val |-> << >>]
Some(x) == [none |-> FALSE, val |-> x]

\* re.search(r'\{[\s\S]*\}', answer): from the first "{" to the last "}"
JsonMatch(answer) ==
    LET lbs == { i \in DOMAIN answer : answer[i].tok = "lb" }
        rbs == { i \in DOMAIN answer : answer[i].tok = "rb" }
    IN IF lbs = {} \/ rbs = {} THEN NoneOf
       ELSE LET first == CHOOSE i \in lbs : \A j \in lbs : i <= j
                last == CHOOSE i \in rbs : \A j \in rbs : j <= i
            IN IF first < last THEN Some(SubSeq(answer, first, last)) ELSE NoneOf

RECURSIVE PairsToDict(_, _)
\* the dict of an object's members: a repeated key keeps its last value
PairsToDict(pairs, d) ==
    IF pairs = << >> THEN d
    ELSE PairsToDict(Tail(pairs), DictSet(d, Head(pairs).key, Head(pairs).val))

\* json.loads(json_str): None stands for JSONDecodeError
JsonLoads(json_str) ==
    LET inner == SubSeq(json_str, 2, Len(json_str) - 1)
    IN IF \A i \in DOMAIN inner : inner[i].tok = "pair"
       THEN Some(PairsToDict(inner, EmptyDict))
       ELSE NoneOf

(***************************************************************************)
(* generate_form_input.  The result holds the four returned values, and    *)
(* what the call did on the way: the catalog as the call left it, the      *)
(* fields it sent to generation and the generative requests it issued.     *)
(***************************************************************************)
\* field_sources' labels: "CSVからのマッピング" and "CSVからの入力"
SourceCachedMapping == "cached_mapping"
SourceSuppliedContent == "supplied_content"

Result(input, sources, status, item, form_data, needed, requests) ==
    [generated_input |-> input, field_sources |-> sources,
     generate_status |-> status, generate_item |-> item,
     form_data |-> form_data, ai_input_needed |-> needed, requests |-> requests]

RECURSIVE BindMappingsFirstWins(_, _, _)
\* the mutant of BindMappings: a field name bound already is skipped
BindMappingsFirstWins(records, generated_input, field_sources) ==
    IF records = << >> THEN <<generated_input, field_sources>>
    ELSE IF DictHas(generated_input, Head(records).name)
    THEN BindMappingsFirstWins(Tail(records), generated_input, field_sources)
    ELSE BindMappingsFirstWins(Tail(records),
                      DictSet(generated_input, Head(records).name, Head(records).value),
                      DictSet(field_sources, Head(records).name, SourceCachedMapping))

RECURSIVE BindMappings(_, _, _)
\* lines 559-562: every cached record's value, under its field name
BindMappings(records, generated_input, field_sources) ==
    IF records = << >> THEN <<generated_input, field_sources>>
    ELSE BindMappings(Tail(records),
                      DictSet(generated_input, Head(records).name, Head(records).value),
                      DictSet(field_sources, Head(records).name, SourceCachedMapping))

\* [opt for opt in all_options if opt != option_selected]
NotSelectedOptions(all_options, option_selected) ==
    SelectSeq(all_options, LAMBDA opt : PyStr(opt) # option_selected)

RECURSIVE BindGenerated(_, _, _, _)
\* lines 624-648: raised is the KeyError of form_data[field_name]
BindGenerated(pairs, generated_input, generate_item, form_data) ==
    IF pairs = << >>
    THEN [raised |-> FALSE, generated_input |-> generated_input,
          generate_item |-> generate_item]
    ELSE LET field_name == Head(pairs)[1]
             value == Head(pairs)[2]
         IN IF DictHas(generated_input, field_name)
            THEN BindGenerated(Tail(pairs), generated_input, generate_item, form_data)
            ELSE IF ~DictHas(form_data, field_name)
            THEN [raised |-> TRUE,
                  generated_input |-> DictSet(generated_input, field_name, value),
                  generate_item |-> generate_item]
            ELSE LET info == DictGet(form_data, field_name)
                     item == [type |-> info.type, name |-> field_name,
                              option |-> NotSelectedOptions(info.options, value),
                              value |-> value, required |-> info.required,
                              max_length |-> info.max_length,
                              placeholder |-> info.placeholder]
                 IN BindGenerated(Tail(pairs),
                                  DictSet(generated_input, field_name, value),
                                  Append(generate_item, item), form_data)

\* the mutant of StripCaptcha: the catalog is left as it is
StripCaptchaNothing(form_data) == form_data

\* lines 552-553: del form_data["g-recaptcha-response"]
StripCaptcha(form_data) ==
    IF DictHas(form_data, "g-recaptcha-response")
    THEN DictDel(form_data, "g-recaptcha-response")
    ELSE form_data

\* the mutant of GenerationFailed: the inputs bound so far are returned
GenerationFailedKeepsInput(generated_input, field_sources, form_data, needed) ==
    Result(Some(generated_input), field_sources, "input_generation_failed",
           Some(<< >>), form_data, needed, 1)

\* lines 654, 657, 660: return None, field_sources, "input_generation_failed", None
GenerationFailed(generated_input, field_sources, form_data, needed) ==
    Result(NoneOf, field_sources, "input_generation_failed", NoneOf,
           form_data, needed, 1)

\* lines 603-660: the request, and the parse of its reply
Generate(form_data, generated_input, field_sources, needed, reply) ==
    LET failed == GenerationFailed(generated_input, field_sources, form_data, needed)
    IN IF reply.raises THEN failed
       ELSE LET json_match == JsonMatch(reply.answer)
            IN IF json_match.none THEN failed
               ELSE LET loaded == JsonLoads(json_match.val)
                    IN IF loaded.none THEN failed
                       ELSE LET bound == BindGenerated(loaded.val, generated_input,
                                                       << >>, form_data)
                            IN IF bound.raised THEN failed
                               ELSE Result(Some(bound.generated_input), field_sources,
                                           "all_input_from_ai",
                                           Some(bound.generate_item),
                                           form_data, needed, 1)

\* the mutant of CacheHit: the cache is never consulted
CacheHitNever(existing_mappings, company_name) == FALSE

\* line 557: company_name in existing_mappings
CacheHit(existing_mappings, company_name) == company_name \in DOMAIN existing_mappings

GenerateFormInput(catalog, existing_mappings, company_name, inquiry_content, reply) ==
    LET form_data == StripCaptcha(catalog)
    IN IF CacheHit(existing_mappings, company_name)
       THEN LET bound == BindMappings(existing_mappings[company_name],
                                      EmptyDict, EmptyDict)
            IN Result(Some(bound[1]), bound[2], "input_from_existing_mapping",
                      Some(<< >>), form_data, EmptyDict, 0)
       ELSE LET supplied == Truthy(inquiry_content)
                generated_input ==
                    IF supplied
                    THEN DictSet(EmptyDict, "inquiry_content", inquiry_content)
                    ELSE EmptyDict
                field_sources ==
                    IF supplied
                    THEN DictSet(EmptyDict, "inquiry_content", SourceSuppliedContent)
                    ELSE EmptyDict
                ai_input_needed == DictWithout(form_data, "inquiry_content")
            IN IF ai_input_needed # EmptyDict
               THEN Generate(form_data, generated_input, field_sources,
                             ai_input_needed, reply)
               ELSE Result(Some(generated_input), field_sources,
                           "all_fill_from_csv", NoneOf, form_data,
                           ai_input_needed, 0)

(***************************************************************************)
(* The mapping store: the CSV file input_mapping.csv.  A row is the header *)
(* row or a data row; every cell is a string.                              *)
(***************************************************************************)
\* USER_ID, the fixed submitter identity
UserId == "user-1"

\* the opaque identifier generated for a new company
CompanyId(company) == "id-" \o company

HeaderRow ==
    [kind |-> "header", id |-> "id", company_name |-> "company-name",
     company_id |-> "company-id", type |-> "type", name |-> "name",
     option |-> <<"option">>, value |-> "value", required |-> "required",
     max_length |-> "max_length", placeholder |-> "placeholder"]

\* str(required)
BoolStr(b) == IF b THEN "True" ELSE "False"

\* lines 399-410: the row written for one item of generate_item
DataRow(field_info, company_id, company_name) ==
    [kind |-> "data", id |-> UserId, company_name |-> company_name,
     company_id |-> company_id, type |-> field_info.type,
     name |-> field_info.name, option |-> field_info.option,
     value |-> field_info.value.s, required |-> BoolStr(field_info.required),
     max_length |-> field_info.max_length, placeholder |-> field_info.placeholder]

\* the rows of generate_item
ItemRows(item, company_id, company) ==
    [i \in DOMAIN item |-> DataRow(item[i], company_id, company)]

AbsentStore == [exists |-> FALSE, rows |-> << >>]

\* lines 354-363: the field_info of a row read by csv.DictReader
FieldInfo(row) ==
    [company_id |-> row.company_id, type |-> row.type, name |-> row.name,
     option |-> row.option, value |-> PyStr(row.value),
     required |-> row.required \in {"True", "true", "TRUE"},
     max_length |-> row.max_length, placeholder |-> row.placeholder]

\* the mutant of DataRowsRead: the data rows are read last to first
DataRowsReadReversed(rows) ==
    IF rows = << >> THEN << >>
    ELSE [i \in 1..(Len(rows) - 1) |-> rows[Len(rows) + 1 - i]]

\* csv.DictReader: the first row names the columns, every later row is data
DataRowsRead(rows) == IF rows = << >> THEN << >> ELSE Tail(rows)

\* the mutant of LoadInputMappings: the load reads no record
LoadInputMappingsNothing(file) == << >>

\* load_input_mappings: company name -> its rows' field_info, in file order
LoadInputMappings(file) ==
    IF ~file.exists THEN << >>
    ELSE LET read == DataRowsRead(file.rows)
             names == { read[i].company_name : i \in DOMAIN read }
             Infos(c) ==
                LET mine == SelectSeq(read, LAMBDA r : r.company_name = c)
                IN [i \in DOMAIN mine |-> FieldInfo(mine[i])]
         IN [c \in names |-> Infos(c)]

(***************************************************************************)
(* handle_recaptcha.  The challenge iframe's src is the sequence of its    *)
(* query parameters; the solving collaborator either returns a token or    *)
(* raises AnticaptchaException.                                            *)
(***************************************************************************)
Param(key, val) == [key |-> key, val |-> val]

\* the parameter names that end in "k", which the pattern k=... matches too
EndsInK == {"k", "ok"}

\* the mutant of SiteKeyMatch: any parameter is taken for the site key
SiteKeyMatchAny(src) ==
    IF src = << >> THEN NoneOf ELSE Some(src[1].val)

\* re.search(r'k=([a-zA-Z0-9_-]+)', src): the first "k=" followed by a key
SiteKeyMatch(src) ==
    LET at == { i \in DOMAIN src : src[i].key \in EndsInK /\ src[i].val # "" }
    IN IF at = {} THEN NoneOf
       ELSE Some(src[CHOOSE i \in at : \A j \in at : i <= j].val)

SolverOutcomes == {"solved", "zero_balance", "failed"}

\* what handle_recaptcha returns, and whether it raised instead of returning
Captcha(ok, message, calls, injected) ==
    [ok |-> ok, message |-> message, solverCalls |-> calls, injected |-> injected,
     raised |-> FALSE]

\* the mutant of HandleRecaptcha: the solver's exception is not caught
HandleRecaptchaUncaught(hidden, iframe, outcome) ==
    IF ~hidden THEN Captcha(TRUE, "no_recaptcha", 0, NoneOf)
    ELSE IF iframe.none THEN Captcha(TRUE, "iframe_not_found", 0, NoneOf)
    ELSE LET site_key_match == SiteKeyMatch(iframe.val)
         IN IF site_key_match.none
            THEN Captcha(FALSE, "site_key_not_found", 0, NoneOf)
            ELSE IF outcome = "solved"
            THEN Captcha(TRUE, "solved_and_inserted", 1,
                         Some("token-" \o site_key_match.val))
            ELSE [Captcha(FALSE, "", 1, NoneOf) EXCEPT !.raised = TRUE]

\* hidden: whether an element named g-recaptcha-response is found in time;
\* iframe: None, or the src of the challenge iframe found in time
HandleRecaptcha(hidden, iframe, outcome) ==
    IF ~hidden THEN Captcha(TRUE, "no_recaptcha", 0, NoneOf)
    ELSE IF iframe.none THEN Captcha(TRUE, "iframe_not_found", 0, NoneOf)
    ELSE LET site_key_match == SiteKeyMatch(iframe.val)
         IN IF site_key_match.none
            THEN Captcha(FALSE, "site_key_not_found", 0, NoneOf)
            ELSE IF outcome = "solved"
            THEN Captcha(TRUE, "solved_and_inserted", 1,
                         Some("token-" \o site_key_match.val))
            ELSE Captcha(FALSE, "anticaptcha_error", 1, NoneOf)

(***************************************************************************)
(* fill_form.  The live form: the names the driver can locate, the         *)
(* checkboxes that are selected, the text typed into each field and the    *)
(* option chosen in each select or radio group.                            *)
(***************************************************************************)
Dom(located, checked, typed, chosen) ==
    [located |-> located, checked |-> checked, typed |-> typed, chosen |-> chosen]

\* checkbox.click()
Click(dom, name) ==
    [dom EXCEPT !.checked = IF name \in @ THEN @ \ {name} ELSE @ \cup {name}]

\* the mutant of FillCheckbox: an agreement checkbox follows the value too
FillCheckboxByValue(dom, name, info, field_value) ==
    IF Truthy(field_value) /\ name \notin dom.checked THEN Click(dom, name)
    ELSE IF ~Truthy(field_value) /\ name \in dom.checked THEN Click(dom, name)
    ELSE dom

\* lines 774-793: the checkbox was found
FillCheckbox(dom, name, info, field_value) ==
    IF info.purpose = "agreement"
    THEN IF name \notin dom.checked THEN Click(dom, name) ELSE dom
    ELSE IF IsBool(field_value)
    THEN IF Truthy(field_value) /\ name \notin dom.checked THEN Click(dom, name)
         ELSE IF ~Truthy(field_value) /\ name \in dom.checked THEN Click(dom, name)
         ELSE dom
    ELSE IF Truthy(field_value) /\ name \notin dom.checked THEN Click(dom, name)
         ELSE IF ~Truthy(field_value) /\ name \in dom.checked THEN Click(dom, name)
         ELSE dom

Filled(dom, raised) == [dom |-> dom, raised |-> raised]

\* lines 734-814: one field of generated_input; raised is an exception that
\* no handler inside the loop catches
FillField(dom, form_data, field_name, field_value) ==
    IF ~DictHas(form_data, field_name) THEN Filled(dom, FALSE)
    ELSE LET info == DictGet(form_data, field_name)
             found == field_name \in dom.located
         IN CASE info.type \in {"text", "email", "tel", "textarea"} ->
                    IF ~found THEN Filled(dom, FALSE)
                    ELSE IF field_value.k = "none" THEN Filled(dom, TRUE)
                    ELSE Filled([dom EXCEPT !.typed =
                                    DictSet(@, field_name, field_value.s)], FALSE)
              [] info.type = "select" ->
                    IF ~found THEN Filled(dom, FALSE)
                    ELSE IF \E i \in DOMAIN info.options :
                                PyStr(info.options[i]) = field_value
                    THEN Filled([dom EXCEPT !.chosen =
                                    DictSet(@, field_name, field_value.s)], FALSE)
                    ELSE Filled(dom, TRUE)
              [] info.type = "radio" ->
                    IF found /\ \E i \in DOMAIN info.options :
                                    PyStr(info.options[i]) = field_value
                    THEN Filled([dom EXCEPT !.chosen =
                                    DictSet(@, field_name, field_value.s)], FALSE)
                    ELSE Filled(dom, FALSE)
              [] info.type = "checkbox" ->
                    IF ~found THEN Filled(dom, FALSE)
                    ELSE Filled(FillCheckbox(dom, field_name, info, field_value), FALSE)
              [] OTHER -> Filled(dom, FALSE)

RECURSIVE FillFields(_, _, _)
\* the loop over generated_input.items(), left at the first exception
FillFields(dom, form_data, items) ==
    IF items = << >> THEN Filled(dom, FALSE)
    ELSE LET one == FillField(dom, form_data, Head(items)[1], Head(items)[2])
         IN IF one.raised THEN one
            ELSE FillFields(one.dom, form_data, Tail(items))

\* the handlers of fill_form's try, past line 822: an exception that leaves
\* the loop becomes the returned pair (False, message)
FillFormExcept(dom) ==
    [dom |-> dom, raised |-> TRUE, returned |-> TRUE,
     captcha |-> Captcha(FALSE, "fill_error", 0, NoneOf)]

\* fill_form: the fields, then handle_recaptcha and the return at line 821;
\* generated_input is an optional dict
FillForm(dom, form_data, generated_input, hidden, iframe, outcome) ==
    LET items == IF generated_input.none THEN << >> ELSE generated_input.val
        filled == FillFields(dom, form_data, items)
    IN IF filled.raised
       THEN FillFormExcept(filled.dom)
       ELSE LET captcha == HandleRecaptcha(hidden, iframe, outcome)
            IN [dom |-> filled.dom, raised |-> FALSE,
                returned |-> ~captcha.raised, captcha |-> captcha]

(***************************************************************************)
(* State.                                                                  *)
(***************************************************************************)
VARIABLES
    \* the mapping store file
    store,
    \* one task's discovery and resolution
    page,               \* the elements of the form on the page
    hasForm,            \* whether the page holds a form element at all
    fullPageSaved,      \* whether full_page.html was written
    form_data,          \* the catalog, None until extract_form_data has run
    existing_mappings,  \* the loaded mappings handed to the task
    company_name,
    inquiry_content,
    first,              \* what the first call of generate_form_input returned
    last,               \* what its latest call returned
    lastReply,          \* how the latest call's reply parsed ("" without a request)
    lastKeys,           \* the field names of the latest reply's object, if it had one
    ncalls,             \* the calls of generate_form_input so far
    aiRequests,         \* the generative requests issued so far
    \* one task's fill step
    dom,                \* the live form
    iframe,             \* the challenge iframe's src, None without an iframe
    fill_input,         \* the generated_input handed to fill_form
    fill,               \* what fill_form did, None until it has run
    solverCalls,        \* the tasks created at the solving collaborator
    injected,           \* the token written into the hidden field, or None
    roundTrip,          \* the fills of a synthesized and of a reloaded input
    \* the batch coordinator, submit_forms
    phase,              \* "idle", "running", or "unwinding" after the loop raised
    snapshot,           \* existing_mappings, as loaded for the batch
    loadedFrom,         \* the store file as it was when the batch loaded it
    loads,              \* the calls of load_input_mappings of the batch
    tasks,              \* the submitted tasks, one per row of the upload
    completed,          \* the tasks whose future is done, in completion order
    collected,          \* the futures the as_completed loop has consumed
    results,            \* the results list
    response,           \* the response to the latest request, or None
    batches,            \* the requests so far
    sameCompanyTwice    \* some batch so far held one company name twice

resolveVars ==
    <<page, hasForm, fullPageSaved, form_data, existing_mappings, company_name, inquiry_content,
      first, last, lastReply, lastKeys, ncalls, aiRequests>>

fillVars == <<dom, iframe, fill_input, fill, solverCalls, injected, roundTrip>>

batchVars ==
    <<phase, snapshot, loadedFrom, loads, tasks, completed, collected, results,
      response, batches, sameCompanyTwice>>

vars == <<store, resolveVars, fillVars, batchVars>>

Companies == {"A", "B"}

\* the company of the task that resolves its inputs
TaskCompany == "A"

Row(company, name, value) ==
    [kind |-> "data", id |-> UserId, company_name |-> company,
     company_id |-> CompanyId(company), type |-> "text", name |-> name,
     option |-> << >>, value |-> value, required |-> "True",
     max_length |-> "", placeholder |-> ""]

\* no fill step is under way
FillIdle ==
    /\ dom = Dom({}, {}, EmptyDict, EmptyDict)
    /\ iframe = NoneOf
    /\ fill_input = NoneOf
    /\ fill = NoneOf
    /\ solverCalls = 0
    /\ injected = NoneOf
    /\ roundTrip = NoneOf

\* no batch is under way
BatchIdle ==
    /\ phase = "idle"
    /\ snapshot = << >>
    /\ loadedFrom = AbsentStore
    /\ loads = 0
    /\ tasks = << >>
    /\ completed = << >>
    /\ collected = 0
    /\ results = << >>
    /\ response = NoneOf
    /\ batches = 0
    /\ sameCompanyTwice = FALSE

\* store files a task may start from: absent, one company's mapping, a
\* mapping with a repeated field name and a field the form no longer has,
\* and another company's mapping
StoredFiles ==
    { AbsentStore,
      [exists |-> TRUE, rows |-> <<HeaderRow, Row("A", "full_name", "Jiro")>>],
      [exists |-> TRUE,
       rows |-> <<HeaderRow, Row("A", "full_name", "Jiro"),
                  Row("A", "old_field", "x"), Row("A", "full_name", "Saburo")>>],
      [exists |-> TRUE, rows |-> <<HeaderRow, Row("B", "full_name", "Hanako")>>] }

Contents == {PyNone, PyStr("Please contact us.")}

\* the reply handed to a call that issues no request
NoReply == [raises |-> FALSE, answer |-> << >>]

\* how generate_form_input reads a reply
ReplyKind(reply) ==
    IF reply.raises THEN "raises"
    ELSE IF JsonMatch(reply.answer).none THEN "no_match"
    ELSE IF JsonLoads(JsonMatch(reply.answer).val).none THEN "no_parse"
    ELSE "object"

\* the field names of the object generate_form_input reads in a reply
ReplyKeys(reply) ==
    IF ReplyKind(reply) = "object"
    THEN DictKeys(JsonLoads(JsonMatch(reply.answer).val).val)
    ELSE {}

(***************************************************************************)
(* One task resolving its inputs: extract_form_data, then                  *)
(* generate_form_input, called twice on the same arguments.               *)
(***************************************************************************)
InitResolve ==
    /\ store \in StoredFiles
    /\ page \in Forms
    /\ hasForm = TRUE
    /\ fullPageSaved = FALSE
    /\ form_data = NoneOf
    /\ existing_mappings = LoadInputMappings(store)
    /\ company_name = TaskCompany
    /\ inquiry_content \in Contents
    /\ first = NoneOf
    /\ last = NoneOf
    /\ lastReply = ""
    /\ lastKeys = {}
    /\ ncalls = 0
    /\ aiRequests = 0
    /\ FillIdle
    /\ BatchIdle

Extract ==
    /\ form_data.none
    /\ WaitForForm(hasForm) = "located"
    /\ form_data' = Some(ExtractFormData(page))
    /\ UNCHANGED <<store, page, hasForm, fullPageSaved, existing_mappings, company_name, inquiry_content,
                   first, last, lastReply, lastKeys, ncalls, aiRequests,
                   fillVars, batchVars>>

\* whether the call issues a generative request
IssuesRequest ==
    GenerateFormInput(form_data.val, existing_mappings, company_name,
                      inquiry_content, NoReply).requests > 0

\* a call of generate_form_input(form_data, existing_mappings, company_name,
\* inquiry_content)
Call ==
    /\ ~form_data.none
    /\ \E reply \in (IF IssuesRequest THEN Replies ELSE {NoReply}) :
          LET r == GenerateFormInput(form_data.val, existing_mappings,
                                     company_name, inquiry_content, reply)
          IN /\ first' = IF ncalls = 0 THEN Some(r) ELSE first
             /\ last' = Some(r)
             /\ lastReply' = IF r.requests > 0 THEN ReplyKind(reply) ELSE ""
             /\ lastKeys' = IF r.requests > 0 THEN ReplyKeys(reply) ELSE {}
             /\ form_data' = Some(r.form_data)
             /\ aiRequests' = aiRequests + r.requests
    /\ ncalls' = ncalls + 1
    /\ UNCHANGED <<store, page, hasForm, fullPageSaved, existing_mappings,
                   company_name, inquiry_content, fillVars, batchVars>>

\* the task resolves its inputs
Resolve == ncalls = 0 /\ Call

\* and resolves them once more, against the same snapshot
ResolveAgain == ncalls = 1 /\ Call

NextResolve == Extract \/ Resolve \/ ResolveAgain

SpecResolve == InitResolve /\ [][NextResolve]_vars

(***************************************************************************)
(* Properties of resolution (SpecResolve).                                 *)
(***************************************************************************)
\* the value of the last of the records that carry a field name
LastValue(records, name) ==
    LET at == { i \in DOMAIN records : records[i].name = name }
    IN records[CHOOSE i \in at : \A j \in at : j <= i].value

\* the resolved inputs of a result: the values and their provenance
ResolvedInputs(r) == <<r.generated_input, r.field_sources>>

\* C2: for a company with an entry in the loaded mappings, generate_form_input
\* issues no generative request, returns input_from_existing_mapping with an
\* empty generate_item, and binds to every cached field name, once, the value
\* cached for it (the last one, when the cache repeats the name).
C2_CacheHitReproducesCache ==
    (ncalls > 0 /\ company_name \in DOMAIN existing_mappings) =>
        LET r == last.val
            cached == existing_mappings[company_name]
            names == { cached[i].name : i \in DOMAIN cached }
        IN /\ aiRequests = 0
           /\ r.generate_status = "input_from_existing_mapping"
           /\ r.generate_item = Some(<< >>)
           /\ ~r.generated_input.none
           /\ DictKeys(r.generated_input.val) = names
           /\ Len(r.generated_input.val) = Cardinality(names)
           /\ \A n \in names :
                DictGet(r.generated_input.val, n) = LastValue(cached, n)

\* C2's case: a cache hit on a mapping that repeats a field name
C2_Witness ==
    /\ ncalls > 0
    /\ company_name \in DOMAIN existing_mappings
    /\ Len(existing_mappings[company_name]) > Len(last.val.generated_input.val)
    /\ Len(page) > 0

\* C3: a field whose name matches the CAPTCHA-token pattern is classified
\* captcha by extraction and is neither sent to generation nor part of a
\* resolved input set.
C3_CaptchaFieldsExcluded ==
    \A i \in DOMAIN page :
        IsCaptchaName(page[i].name) =>
            /\ (~form_data.none /\ DictHas(form_data.val, page[i].name)) =>
                    DictGet(form_data.val, page[i].name).type = "captcha"
            /\ ~last.none =>
                    /\ ~DictHas(last.val.ai_input_needed, page[i].name)
                    /\ ~last.val.generated_input.none =>
                            ~DictHas(last.val.generated_input.val, page[i].name)

\* C4: when the generative call fails, or its reply holds no JSON object, or
\* the extracted text does not parse, generate_form_input returns no inputs,
\* the status input_generation_failed and no mapping records.
C4_UnparseableReplyFails ==
    lastReply \in {"raises", "no_match", "no_parse"} =>
        /\ last.val.generated_input.none
        /\ last.val.generate_status = "input_generation_failed"
        /\ last.val.generate_item.none

\* C4's case: a reply whose braces hold text that does not parse
C4_Witness ==
    /\ lastReply = "no_parse"
    /\ last.val.generate_status = "input_generation_failed"

InquiryFields == { page[i].name : i \in DOMAIN page } \cap InquiryContentKeywords

\* C7: on a cache miss with supplied content, for a catalog with an
\* inquiry-content field and another field, exactly one generative request is
\* issued, the content is bound to the inquiry-content field with provenance
\* supplied_content, that field is not sent to generation, and every other
\* resolved field has provenance generated.
C7_SuppliedContentBound ==
    (/\ ncalls > 0
     /\ company_name \notin DOMAIN existing_mappings
     /\ Truthy(inquiry_content)
     /\ InquiryFields # {}
     /\ Len(page) > 1) =>
        LET r == last.val
        IN /\ r.requests = 1
           /\ \A f \in InquiryFields : ~DictHas(r.ai_input_needed, f)
           /\ ~r.generated_input.none =>
                /\ \A f \in InquiryFields :
                     /\ DictHas(r.generated_input.val, f)
                     /\ DictGet(r.generated_input.val, f) = inquiry_content
                     /\ DictHas(r.field_sources, f)
                     /\ DictGet(r.field_sources, f) = SourceSuppliedContent
                /\ \A g \in DictKeys(r.generated_input.val) \ InquiryFields :
                     /\ DictHas(r.field_sources, g)
                     /\ DictGet(r.field_sources, g) = "generated"

\* the records the store holds for a company and a field name, oldest first
StoredRecords(company, name) ==
    SelectSeq(IF store.exists /\ store.rows # << >> THEN Tail(store.rows) ELSE << >>,
              LAMBDA row : row.company_name = company /\ row.name = name)

\* the field names the store holds for a company
StoredNames(company) ==
    { store.rows[i].name :
        i \in { j \in DOMAIN store.rows :
                    j > 1 /\ store.rows[j].company_name = company } }

\* C16: when the store holds several records for one (company_name,
\* field_name) pair, the value that a resolution after a fresh load binds to
\* the field is the value of the record appended last.
C16_LastAppendedWins ==
    (ncalls > 0 /\ StoredNames(company_name) # {}) =>
        /\ ~last.val.generated_input.none
        /\ \A n \in StoredNames(company_name) :
              LET recs == StoredRecords(company_name, n)
              IN /\ DictHas(last.val.generated_input.val, n)
                 /\ DictGet(last.val.generated_input.val, n)
                        = PyStr(recs[Len(recs)].value)

\* C16's case: a resolution against a store that holds two records with
\* different values for one pair
C16_Witness ==
    /\ ncalls > 0
    /\ \E n \in StoredNames(company_name) :
          LET recs == StoredRecords(company_name, n)
          IN /\ Len(recs) > 1
             /\ recs[1].value # recs[Len(recs)].value
             /\ DictGet(last.val.generated_input.val, n)
                    = PyStr(recs[Len(recs)].value)

\* the names of the latest reply's object that the catalog does not hold
UnknownNames == lastKeys \ DictKeys(last.val.form_data)

\* C11: a generated field name that the catalog does not hold is ignored:
\* the call still returns all_input_from_ai, no mapping record names the
\* unknown field, and every field of the reply that the catalog holds is
\* resolved.
C11_UnknownNameIgnored ==
    (/\ ~last.none
     /\ lastReply = "object"
     /\ UnknownNames # {}) =>
        LET r == last.val
        IN /\ r.generate_status = "all_input_from_ai"
           /\ ~r.generate_item.none
           /\ \A i \in DOMAIN r.generate_item.val :
                 r.generate_item.val[i].name \notin UnknownNames
           /\ ~r.generated_input.none
           /\ \A k \in lastKeys \cap DictKeys(r.form_data) :
                 DictHas(r.generated_input.val, k)

(***************************************************************************)
(* Discovery alone: extract_form_data on any page, with a form of named    *)
(* and unnamed elements or with no form at all.                            *)
(***************************************************************************)
\* elements without a name attribute, one of each kind
UnnamedElements ==
    << Element("input", "text", NoName, "", ""),
       Element("select", "", NoName, "", ""),
       Element("input", "radio", NoName, "", "1"),
       Element("input", "checkbox", NoName, "", "1"),
       Element("textarea", "", NoName, "", "") >>

ExtractElements == PageElements \o UnnamedElements

\* the forms of at most MaxElems of these elements, in document order
ExtractForms ==
    { [i \in DOMAIN SortedSeq(S) |-> ExtractElements[SortedSeq(S)[i]]] :
        S \in { T \in SUBSET DOMAIN ExtractElements : Cardinality(T) <= MaxElems } }

InitExtract ==
    /\ store = AbsentStore
    /\ hasForm \in BOOLEAN
    /\ page \in (IF hasForm THEN ExtractForms ELSE {<< >>})
    /\ fullPageSaved = FALSE
    /\ form_data = NoneOf
    /\ existing_mappings = << >>
    /\ company_name = TaskCompany
    /\ inquiry_content = PyNone
    /\ first = NoneOf
    /\ last = NoneOf
    /\ lastReply = ""
    /\ lastKeys = {}
    /\ ncalls = 0
    /\ aiRequests = 0
    /\ FillIdle
    /\ BatchIdle

\* extract_form_data on a page where no form is located within the wait
ExtractNoForm ==
    /\ form_data.none
    /\ WaitForForm(hasForm) # "located"
    /\ LET handled == ExtractFormExcept(WaitForForm(hasForm))
       IN /\ form_data' = Some(handled.form_data)
          /\ fullPageSaved' = handled.saved
    /\ UNCHANGED <<store, page, hasForm, existing_mappings, company_name,
                   inquiry_content, first, last, lastReply, lastKeys, ncalls,
                   aiRequests, fillVars, batchVars>>

NextExtract == Extract \/ ExtractNoForm

SpecExtract == InitExtract /\ [][NextExtract]_vars

\* C15: every key of the catalog that extract_form_data returns is a
\* non-empty field name, whatever elements the form holds.
C15_CatalogNamesNonEmpty ==
    ~form_data.none => NoName \notin DictKeys(form_data.val)

\* C18: when no form is located within the wait bound, extract_form_data
\* returns an empty catalog and the raw page has been written to storage.
C18_NoFormPreservesPage ==
    (~hasForm /\ ~form_data.none) =>
        /\ form_data.val = EmptyDict
        /\ fullPageSaved

(***************************************************************************)
(* One task's fill step: extract_form_data, then fill_form on resolved     *)
(* inputs of any values, against a live form in any state.                 *)
(***************************************************************************)
PageNames == { page[i].name : i \in DOMAIN page }

CheckboxNames == { page[i].name : i \in { j \in DOMAIN page : IsCheckbox(page[j]) } }

\* By.NAME 'g-recaptcha-response' finds an element
HiddenFieldPresent == "g-recaptcha-response" \in dom.located

\* the challenge iframes: none, one with a site key, and two without
Iframes ==
    { NoneOf,
      Some(<<Param("ar", "1"), Param("k", "SITEKEY")>>),
      Some(<<Param("ar", "1"), Param("hl", "ja")>>),
      Some(<<Param("k", "")>>) }

\* the values a resolved input may carry: JSON true, false, null and strings
FillValues == {PyTrue, PyFalse, PyNone, PyStr(""), PyStr("yes")}

\* a name left out of a resolved input
Skip == [k |-> "skip", s |-> ""]

\* the names a resolved input may carry: the form's, and one it does not have
InputNames == [i \in 1..(Len(page) + 1) |->
                IF i <= Len(page) THEN page[i].name ELSE "old_field"]

\* the resolved inputs: None, or a value for some of InputNames
FillInputs ==
    { NoneOf } \cup
    { Some(SelectSeq([i \in DOMAIN InputNames |-> <<InputNames[i], a[i]>>],
                     LAMBDA p : p[2] # Skip)) :
        a \in [DOMAIN InputNames -> FillValues \cup {Skip}] }

InitFill ==
    /\ store = AbsentStore
    /\ page \in Forms
    /\ hasForm = TRUE
    /\ fullPageSaved = FALSE
    /\ form_data = NoneOf
    /\ existing_mappings = << >>
    /\ company_name = TaskCompany
    /\ inquiry_content = PyNone
    /\ first = NoneOf
    /\ last = NoneOf
    /\ lastReply = ""
    /\ lastKeys = {}
    /\ ncalls = 0
    /\ aiRequests = 0
    /\ \E missing \in { M \in SUBSET PageNames : Cardinality(M) <= 1 },
          checked \in SUBSET CheckboxNames :
            dom = Dom(PageNames \ missing, checked, EmptyDict, EmptyDict)
    /\ iframe \in (IF HiddenFieldPresent THEN Iframes ELSE {NoneOf})
    /\ fill_input = NoneOf
    /\ fill = NoneOf
    /\ solverCalls = 0
    /\ injected = NoneOf
    /\ roundTrip = NoneOf
    /\ BatchIdle

\* whether handle_recaptcha reaches the solving collaborator
ReachesSolver == HandleRecaptcha(HiddenFieldPresent, iframe, "solved").solverCalls > 0

\* fill_form(driver, form_data, generated_input, field_sources, key)
Fill ==
    /\ ~form_data.none
    /\ fill.none
    /\ \E generated_input \in FillInputs,
          outcome \in (IF ReachesSolver THEN SolverOutcomes ELSE {"solved"}) :
          LET f == FillForm(dom, form_data.val, generated_input,
                            HiddenFieldPresent, iframe, outcome)
          IN /\ dom' = f.dom
             /\ fill_input' = generated_input
             /\ fill' = Some([raised |-> f.raised, returned |-> f.returned,
                              ok |-> f.captcha.ok,
                              message |-> f.captcha.message])
             /\ solverCalls' = solverCalls + f.captcha.solverCalls
             /\ injected' = f.captcha.injected
    /\ UNCHANGED <<store, resolveVars, iframe, roundTrip, batchVars>>

NextFill == Extract \/ Fill

SpecFill == InitFill /\ [][NextFill]_vars

(***************************************************************************)
(* Properties of the fill step (SpecFill).                                 *)
(***************************************************************************)
\* fill_form ran to its return statement
FillReturned == ~fill.none /\ ~fill.val.raised

\* the agreement checkboxes that were given a value and are on the live form
AgreementFilled ==
    { n \in DictKeys(fill_input.val) \cap DictKeys(form_data.val) :
        /\ DictGet(form_data.val, n).purpose = "agreement"
        /\ n \in dom.located }

\* C5: once fill_form has completed, every agreement checkbox that was given
\* a value is checked, whatever the value and whatever its state before.
C5_AgreementChecked ==
    (FillReturned /\ ~fill_input.none) => AgreementFilled \subseteq dom.checked

\* C5's case: an agreement checkbox resolved to false is checked after the fill
C5_Witness ==
    /\ FillReturned
    /\ ~fill_input.none
    /\ \E n \in AgreementFilled : DictGet(fill_input.val, n) = PyFalse

\* the iframe's src holds a site key: a k= parameter with a value
SiteKeyPresent ==
    /\ ~iframe.none
    /\ \E i \in DOMAIN iframe.val :
          iframe.val[i].key \in EndsInK /\ iframe.val[i].val # ""

\* C8: handle_recaptcha contacts the solving collaborator only when the hidden
\* field and the iframe are present and the site key was parsed; without the
\* hidden field, or without the iframe, it returns ok with a message, contacts
\* no solver and injects no token.
C8_SolverOnlyForLiveChallenge ==
    /\ solverCalls > 0 => (HiddenFieldPresent /\ ~iframe.none /\ SiteKeyPresent)
    /\ (FillReturned /\ (~HiddenFieldPresent \/ iframe.none)) =>
            /\ fill.val.ok
            /\ fill.val.message \in {"no_recaptcha", "iframe_not_found"}
            /\ solverCalls = 0
            /\ injected.none

\* C8's case: the hidden field is there and the iframe is not
C8_Witness ==
    /\ FillReturned
    /\ HiddenFieldPresent
    /\ iframe.none
    /\ fill.val.message = "iframe_not_found"

Typable ==
    { i \in DOMAIN fill_input.val :
        /\ DictHas(form_data.val, fill_input.val[i][1])
        /\ DictGet(form_data.val, fill_input.val[i][1]).type
                \in {"text", "email", "tel", "textarea"}
        /\ fill_input.val[i][1] \in dom.located }

\* C14: a resolved field that the catalog does not hold, or whose element or
\* chosen option cannot be located, is skipped without aborting: with string
\* values for every field, every field that can be typed into is typed into
\* and the captcha step runs.
C14_SkipsWithoutAborting ==
    (/\ ~fill.none
     /\ ~fill_input.none
     /\ \A i \in DOMAIN fill_input.val : fill_input.val[i][2].k = "str") =>
        /\ ~fill.val.raised
        /\ \A i \in Typable :
              /\ DictHas(dom.typed, fill_input.val[i][1])
              /\ DictGet(dom.typed, fill_input.val[i][1]) = fill_input.val[i][2].s

(***************************************************************************)
(* The round trip through the store: a task synthesizes its inputs on a    *)
(* cache miss and appends them with save_input_mapping; a later task of    *)
(* the same company loads the store, resolves from the cache and fills the *)
(* same form.                                                              *)
(***************************************************************************)
\* the values a reply may give a field: JSON true and false, and a string
RoundTripValues == {PyTrue, PyFalse, PyStr("yes")}

\* the replies: an object with a value for every field of the catalog
RoundTripReplies ==
    { [raises |-> FALSE,
       answer |-> <<LbTok>>
                  \o [i \in DOMAIN form_data.val |->
                        PairTok(form_data.val[i][1], a[i])]
                  \o <<RbTok>>] :
        a \in [DOMAIN form_data.val -> RoundTripValues] }

InitRoundTrip ==
    /\ store = AbsentStore
    /\ page \in Forms
    /\ hasForm = TRUE
    /\ fullPageSaved = FALSE
    /\ form_data = NoneOf
    /\ existing_mappings = LoadInputMappings(store)
    /\ company_name = TaskCompany
    /\ inquiry_content = PyNone
    /\ first = NoneOf
    /\ last = NoneOf
    /\ lastReply = ""
    /\ lastKeys = {}
    /\ ncalls = 0
    /\ aiRequests = 0
    /\ \E checked \in SUBSET CheckboxNames :
          dom = Dom(PageNames, checked, EmptyDict, EmptyDict)
    /\ iframe = NoneOf
    /\ fill_input = NoneOf
    /\ fill = NoneOf
    /\ solverCalls = 0
    /\ injected = NoneOf
    /\ roundTrip = NoneOf
    /\ BatchIdle

\* the first task resolves its inputs: a cache miss, and a reply
ResolveMiss ==
    /\ ~form_data.none
    /\ ncalls = 0
    /\ \E reply \in RoundTripReplies :
          LET r == GenerateFormInput(form_data.val, existing_mappings,
                                     company_name, inquiry_content, reply)
          IN /\ first' = Some(r)
             /\ form_data' = Some(r.form_data)
             /\ aiRequests' = aiRequests + r.requests
    /\ ncalls' = 1
    /\ UNCHANGED <<store, page, hasForm, fullPageSaved, existing_mappings,
                   company_name, inquiry_content, last, lastReply, lastKeys,
                   fillVars, batchVars>>

\* save_input_mapping(csv_file_path, generate_item, company_id, company_name)
SaveInputMapping ==
    /\ ncalls = 1
    /\ ~store.exists
    /\ ~first.val.generate_item.none
    /\ first.val.generate_item.val # << >>
    /\ store' = [exists |-> TRUE,
                 rows |-> <<HeaderRow>>
                          \o ItemRows(first.val.generate_item.val,
                                      CompanyId(company_name), company_name)]
    /\ UNCHANGED <<resolveVars, fillVars, batchVars>>

\* a later batch: load_input_mappings(csv_file_path)
Reload ==
    /\ store.exists
    /\ existing_mappings = << >>
    /\ existing_mappings' = LoadInputMappings(store)
    /\ UNCHANGED <<store, page, hasForm, fullPageSaved, form_data, company_name,
                   inquiry_content, first, last, lastReply, lastKeys, ncalls,
                   aiRequests, fillVars, batchVars>>

\* the later task resolves the same company from the cache
ResolveCached ==
    /\ ncalls = 1
    /\ CacheHit(existing_mappings, company_name)
    /\ LET r == GenerateFormInput(form_data.val, existing_mappings,
                                  company_name, inquiry_content, NoReply)
       IN /\ last' = Some(r)
          /\ form_data' = Some(r.form_data)
          /\ aiRequests' = aiRequests + r.requests
    /\ ncalls' = 2
    /\ UNCHANGED <<store, page, hasForm, fullPageSaved, existing_mappings,
                   company_name, inquiry_content, first, lastReply, lastKeys,
                   fillVars, batchVars>>

\* what fill_form does to the live form with a resolved input
FillOutcome(generated_input) ==
    LET f == FillForm(dom, form_data.val, generated_input, FALSE, NoneOf, "solved")
    IN [dom |-> f.dom, raised |-> f.raised]

\* both tasks fill the form as they found it
FillBoth ==
    /\ ncalls = 2
    /\ roundTrip.none
    /\ roundTrip' = Some([synthesized |-> FillOutcome(first.val.generated_input),
                          cached |-> FillOutcome(last.val.generated_input)])
    /\ UNCHANGED <<store, resolveVars, dom, iframe, fill_input, fill,
                   solverCalls, injected, batchVars>>

NextRoundTrip ==
    Extract \/ ResolveMiss \/ SaveInputMapping \/ Reload \/ ResolveCached \/ FillBoth

SpecRoundTrip == InitRoundTrip /\ [][NextRoundTrip]_vars

\* C19: a value synthesized on a cache miss, appended, reloaded and resolved
\* from the cache makes fill_form act on the form as the synthesized value
\* did: the same text, the same option, the same checkboxes checked.
C19_RoundTripFillsAlike ==
    ~roundTrip.none => roundTrip.val.cached = roundTrip.val.synthesized

(***************************************************************************)
(* The batch: submit_forms loads the mappings once, submits one            *)
(* process_company per row to a pool of worker processes and collects the  *)
(* futures as they complete.  process_company discovers the form, resolves *)
(* the inputs against the mappings it was handed, appends a synthesized    *)
(* mapping to the store and ends with the task's result.  A worker may     *)
(* also die or raise, and its future then holds the exception.             *)
(***************************************************************************)
\* max_workers = min(4, os.cpu_count() or 1), on a machine of four cores or more
MaxWorkers == 4

\* the names bound in app.py's namespace (lines 3-21)
AppGlobals ==
    { "Flask", "request", "jsonify", "os", "pd", "logging",
      "ProcessPoolExecutor", "as_completed", "partial", "load_dotenv", "uuid",
      "verify_columns", "load_input_mappings", "save_input_mapping",
      "extract_form_data", "generate_form_input", "handle_recaptcha",
      "fill_form", "click_submit_button", "check_submission_status",
      "check_form_submission_success", "add_result", "summarize_results",
      "save_results_to_json", "save_results_to_csv", "detect_captcha",
      "scroll_into_view", "fill_input_field", "find_and_click_submit",
      "submit_contact_form", "find_contact_info", "process_company",
      "app", "openai_api_key", "anticaptcha_api_key", "USER_ID",
      "submit_forms", "index" }

\* the form every company of a batch serves, and its catalog
BatchForm == <<PageElements[1], PageElements[2]>>

BatchCatalog == ExtractFormData(BatchForm)

BatchContent == PyStr("Please contact us.")

\* the replies a task of a batch may get: an object, and text without one
BatchReplies ==
    { [raises |-> FALSE,
       answer |-> <<LbTok, PairTok("full_name", PyStr("Taro")), RbTok>>],
      [raises |-> FALSE, answer |-> <<TxtTok>>] }

\* the uploads: one to MaxTasks rows, each naming a company.  The rows of an
\* upload are handled alike wherever they stand, so the uploads are taken up
\* to the order of their rows: the rows of company "A" first.
Uploads ==
    { [i \in 1..n |-> IF i <= a THEN "A" ELSE "B"] :
        n \in 1..MaxTasks, a \in 0..MaxTasks } \ { << >> }

\* a task: its row's company, the worker's position, the mappings its lookup
\* read, and whether the store held, at the lookup, a mapping of the task's
\* company that the batch's load had not seen (stale)
Task(company) ==
    [company |-> company, pc |-> "queued", looked |-> NoneOf, stale |-> FALSE,
     status |-> "", item |-> NoneOf, file_exists |-> FALSE, result |-> ""]

\* the upload of a request: whether request.files holds 'file', its filename,
\* whether pd.read_csv reads it and whether it has the required columns
WellFormedRequest ==
    [has_file |-> TRUE, filename |-> "companies.csv", readable |-> TRUE,
     has_columns |-> TRUE]

\* the well-formed request, and the requests with one defect
Requests ==
    { WellFormedRequest,
      [WellFormedRequest EXCEPT !.has_file = FALSE],
      [WellFormedRequest EXCEPT !.filename = ""],
      [WellFormedRequest EXCEPT !.filename = "companies.txt"],
      [WellFormedRequest EXCEPT !.readable = FALSE],
      [WellFormedRequest EXCEPT !.has_columns = FALSE] }

\* lines 57-76: the checks of the upload, in the code's order; "" when the
\* request passes them all
Validate(req) ==
    IF ~req.has_file THEN "no_file"
    ELSE IF req.filename = "" THEN "no_filename"
    ELSE IF req.filename \notin {"companies.csv"} THEN "not_csv"
    ELSE IF ~req.readable THEN "read_failed"
    ELSE IF ~req.has_columns THEN "columns_missing"
    ELSE ""

\* a response: the status code and the details, and for the request it
\* answers whether the upload was malformed, how often the store was loaded
\* and how many tasks were submitted
Response(code, details, malformed, nloads, submitted) ==
    [code |-> code, details |-> details, malformed |-> malformed,
     loads |-> nloads, submitted |-> submitted]

\* an upload that lacks the file, a filename, the .csv extension, readable
\* content or a required column
Malformed(req) ==
    \/ ~req.has_file
    \/ req.filename = ""
    \/ req.filename \notin {"companies.csv"}
    \/ ~req.readable
    \/ ~req.has_columns

\* lines 57-76: a request that fails a check is answered at once
Reject ==
    /\ phase = "idle"
    /\ \E req \in Requests :
          /\ Validate(req) # ""
          /\ response' = Some(Response(400, << >>, Malformed(req), 0, 0))
    /\ UNCHANGED <<store, resolveVars, fillVars, phase, snapshot, loadedFrom,
                   loads, tasks, completed, collected, results, batches,
                   sameCompanyTwice>>

\* lines 57-100: the checks pass; the load, and the submission of every row
SubmitForms ==
    /\ phase = "idle"
    /\ batches < MaxBatches
    /\ \E req \in Requests : Validate(req) = ""
    /\ \E upload \in Uploads :
          /\ tasks' = [i \in DOMAIN upload |-> Task(upload[i])]
          /\ sameCompanyTwice' =
                (sameCompanyTwice
                 \/ \E i, j \in DOMAIN upload : i # j /\ upload[i] = upload[j])
    /\ snapshot' = LoadInputMappings(store)
    /\ loadedFrom' = store
    /\ loads' = 1
    /\ phase' = "running"
    /\ completed' = << >>
    /\ collected' = 0
    /\ results' = << >>
    /\ response' = NoneOf
    /\ batches' = batches + 1
    /\ UNCHANGED <<store, resolveVars, fillVars>>

\* the tasks a worker is running
Running == { t \in DOMAIN tasks : tasks[t].pc \in {"resolved", "saving", "saved"} }

\* the mutant of TaskMappings: the task reads the store as it is now
TaskMappingsReloaded(t) == LoadInputMappings(store)

\* line 95: the existing_mappings handed to process_company
TaskMappings(t) == snapshot

\* a worker takes the task and resolves its inputs
TaskResolve(t) ==
    /\ phase # "idle"
    /\ tasks[t].pc = "queued"
    /\ Cardinality(Running) < MaxWorkers
    /\ \E reply \in BatchReplies :
          LET r == GenerateFormInput(BatchCatalog, TaskMappings(t),
                                     tasks[t].company, BatchContent, reply)
          IN tasks' = [tasks EXCEPT ![t].pc = "resolved",
                                    ![t].looked = Some(TaskMappings(t)),
                                    ![t].stale =
                                        /\ CacheHit(LoadInputMappings(store),
                                                    tasks[t].company)
                                        /\ ~CacheHit(LoadInputMappings(loadedFrom),
                                                     tasks[t].company),
                                    ![t].status = r.generate_status,
                                    ![t].item = r.generate_item]
    /\ UNCHANGED <<store, resolveVars, fillVars, phase, snapshot, loadedFrom,
                   loads, completed, collected, results, response, batches,
                   sameCompanyTwice>>

\* the task has a synthesized mapping to append
HasNewMapping(t) == ~tasks[t].item.none /\ tasks[t].item.val # << >>

\* save_input_mapping, line 380: file_exists = os.path.isfile(csv_file_path)
TaskSaveCheck(t) ==
    /\ tasks[t].pc = "resolved"
    /\ HasNewMapping(t)
    /\ tasks' = [tasks EXCEPT ![t].pc = "saving", ![t].file_exists = store.exists]
    /\ UNCHANGED <<store, resolveVars, fillVars, phase, snapshot, loadedFrom,
                   loads, completed, collected, results, response, batches,
                   sameCompanyTwice>>

\* save_input_mapping, lines 381-410: the append, with the header first when
\* the file was not there at line 380
TaskSaveWrite(t) ==
    /\ tasks[t].pc = "saving"
    /\ store' =
          [exists |-> TRUE,
           rows |-> store.rows
                    \o (IF tasks[t].file_exists THEN << >> ELSE <<HeaderRow>>)
                    \o ItemRows(tasks[t].item.val, CompanyId(tasks[t].company),
                                tasks[t].company)]
    /\ tasks' = [tasks EXCEPT ![t].pc = "saved", ![t].item = NoneOf,
                              ![t].file_exists = FALSE, ![t].stale = FALSE]
    /\ UNCHANGED <<resolveVars, fillVars, phase, snapshot, loadedFrom,
                   loads, completed, collected, results, response, batches,
                   sameCompanyTwice>>

\* the status of a task's result: a failed generation is an error, and the
\* submission that follows a resolution is taken to succeed
TaskResult(generate_status) ==
    IF generate_status = "input_generation_failed" THEN "error" ELSE "success"

\* the task ends with its result
TaskFinish(t) ==
    /\ \/ tasks[t].pc = "saved"
       \/ tasks[t].pc = "resolved" /\ ~HasNewMapping(t)
    /\ tasks' = [tasks EXCEPT ![t].pc = "done", ![t].item = NoneOf,
                              ![t].stale = FALSE,
                              ![t].result = TaskResult(tasks[t].status)]
    /\ completed' = Append(completed, t)
    /\ UNCHANGED <<store, resolveVars, fillVars, phase, snapshot, loadedFrom,
                   loads, collected, results, response, batches,
                   sameCompanyTwice>>

\* the worker dies, or process_company raises: the future holds an exception
WorkerRaise(t) ==
    /\ phase # "idle"
    /\ tasks[t].pc \in {"queued", "resolved", "saving", "saved"}
    /\ tasks' = [tasks EXCEPT ![t] = [Task(tasks[t].company)
                                          EXCEPT !.pc = "raised"]]
    /\ completed' = Append(completed, t)
    /\ UNCHANGED <<store, resolveVars, fillVars, phase, snapshot, loadedFrom,
                   loads, collected, results, response, batches,
                   sameCompanyTwice>>

\* a collected result, and the task it came from
Collected(origin, status, synthetic) ==
    [origin |-> origin, status |-> status, synthetic |-> synthetic]

\* the mutant of HandlerNamesBound: every name the handler uses is bound
HandlerNamesBoundAll == TRUE

\* lines 107-116: the handler reads logging and time
HandlerNamesBound == {"logging", "time"} \subseteq AppGlobals

\* lines 102-116: one turn of the as_completed loop
Collect ==
    /\ phase = "running"
    /\ collected < Len(completed)
    /\ LET t == completed[collected + 1]
       IN IF tasks[t].pc = "done"
          THEN /\ results' = Append(results, Collected(t, tasks[t].result, FALSE))
               /\ phase' = phase
          ELSE IF HandlerNamesBound
          THEN /\ results' = Append(results, Collected(t, "error", TRUE))
               /\ phase' = phase
          ELSE /\ results' = results
               /\ phase' = "unwinding"
    /\ collected' = collected + 1
    /\ UNCHANGED <<store, resolveVars, fillVars, snapshot, loadedFrom, loads,
                   tasks, completed, response, batches, sameCompanyTwice>>

\* lines 118-128: every future was collected; the summary and the details
Respond ==
    /\ phase = "running"
    /\ collected = Len(tasks)
    /\ response' = Some(Response(200, results, FALSE, loads, Len(tasks)))
    /\ phase' = "idle"
    /\ UNCHANGED <<store, resolveVars, fillVars, snapshot, loadedFrom, loads,
                   tasks, completed, collected, results, batches,
                   sameCompanyTwice>>

\* the exception raised inside the loop leaves the with block once every
\* worker has finished, and the request fails
Unwind ==
    /\ phase = "unwinding"
    /\ Len(completed) = Len(tasks)
    /\ response' = Some(Response(500, << >>, FALSE, loads, Len(tasks)))
    /\ phase' = "idle"
    /\ UNCHANGED <<store, resolveVars, fillVars, snapshot, loadedFrom, loads,
                   tasks, completed, collected, results, batches,
                   sameCompanyTwice>>

Init ==
    /\ store = AbsentStore
    /\ page = << >>
    /\ hasForm = TRUE
    /\ fullPageSaved = FALSE
    /\ form_data = NoneOf
    /\ existing_mappings = << >>
    /\ company_name = TaskCompany
    /\ inquiry_content = PyNone
    /\ first = NoneOf
    /\ last = NoneOf
    /\ lastReply = ""
    /\ lastKeys = {}
    /\ ncalls = 0
    /\ aiRequests = 0
    /\ FillIdle
    /\ BatchIdle

Next ==
    \/ Reject
    \/ SubmitForms
    \/ \E t \in DOMAIN tasks : TaskResolve(t)
    \/ \E t \in DOMAIN tasks : TaskSaveCheck(t)
    \/ \E t \in DOMAIN tasks : TaskSaveWrite(t)
    \/ \E t \in DOMAIN tasks : TaskFinish(t)
    \/ \E t \in DOMAIN tasks : WorkerRaise(t)
    \/ Collect
    \/ Respond
    \/ Unwind

Spec == Init /\ [][Next]_vars

(***************************************************************************)
(* The batch's claims.                                                     *)
(***************************************************************************)
\* the tasks whose worker raised, and the results collected for task t
Raised == { t \in DOMAIN tasks : tasks[t].pc = "raised" }

ResultsOf(details, t) == { i \in DOMAIN details : details[i].origin = t }

\* C1: a batch is never aborted by a worker's exception, and the response to
\* a batch of N tasks holds exactly N results, one per task: a synthetic
\* result of status error for each task whose worker raised, and its own
\* result, unchanged, for every other task.
C1_OneResultPerTask ==
    /\ phase # "unwinding"
    /\ (~response.none /\ ~response.val.malformed) =>
          /\ response.val.code = 200
          /\ Len(response.val.details) = Len(tasks)
          /\ \A t \in DOMAIN tasks :
                \E i \in DOMAIN response.val.details :
                   LET d == response.val.details[i]
                   IN /\ ResultsOf(response.val.details, t) = {i}
                      /\ IF t \in Raised
                         THEN d.synthetic /\ d.status = "error"
                         ELSE ~d.synthetic /\ d.status = tasks[t].result

\* C9: within one batch the store is read once, before any task starts, and
\* every task's lookup reads the mappings of that one load: a task whose
\* company another task of the batch has appended since the load does not
\* hit the cache.
C9_SnapshotReadOnce ==
    (batches > 0) =>
        /\ loads = 1
        /\ snapshot = LoadInputMappings(loadedFrom)
        /\ \A t \in DOMAIN tasks :
              ~tasks[t].looked.none =>
                  /\ tasks[t].looked.val = snapshot
                  /\ tasks[t].stale =>
                        tasks[t].status # "input_from_existing_mapping"

\* C9's case: a task looked up its company after another task of the batch
\* had appended a mapping of that company
C9_Witness ==
    \E t \in DOMAIN tasks :
        /\ tasks[t].pc = "resolved"
        /\ tasks[t].stale
        /\ store # loadedFrom
        /\ tasks[t].status = "all_input_from_ai"

\* the records a load reads from the store
Records == IF store.exists THEN DataRowsRead(store.rows) ELSE << >>

UniquePairs ==
    \A i, j \in DOMAIN Records :
        (/\ Records[i].company_name = Records[j].company_name
         /\ Records[i].name = Records[j].name) => i = j

C12_ResponseByRequest ==
    ~response.none =>
        IF response.val.malformed
        THEN /\ response.val.code \in 400..499
             /\ response.val.loads = 0
             /\ response.val.submitted = 0
        ELSE /\ response.val.code = 200
             /\ Len(response.val.details) = response.val.submitted

\* C17: under every interleaving of the workers' appends onto a store file
\* that was absent, the header row is written once and is the first row, and
\* every later row is a data record.
C17_HeaderWrittenOnce ==
    store.exists =>
        /\ store.rows # << >>
        /\ store.rows[1] = HeaderRow
        /\ \A i \in DOMAIN store.rows : i > 1 => store.rows[i].kind = "data"

============================================================================
